---- MODULE Spec2Model ----
(***************************************************************************)
(* Soora Express backend: the address handlers (routes/users), the admin   *)
(* handlers (routes/admin.ts) and the product handlers                     *)
(* (routes/products.ts), modelled over the tables they read and write.      *)
(* A handler that awaits several database calls is split at its awaits:    *)
(* each database call is one atomic step, and steps of different requests  *)
(* interleave.  resp holds the response produced by the step just taken    *)
(* and is NoResp after a step that sends none, so a state predicate over   *)
(* resp and the tables reads the tables as they are when the response is   *)
(* sent.                                                                   *)
(***************************************************************************)
EXTENDS Integers, Sequences, FiniteSets

VARIABLES
  addresses,     \* Address table: id -> [userId, isDefault]
  nextId,        \* the id the next created address gets
  req,           \* the address requests in flight, by slot
  orders,        \* Order table: id -> [status, deliveredAt, total, createdAt]
  now,           \* the clock read by new Date()
  everDelivered, \* history: the orders whose status was set to DELIVERED
  upd,           \* the PUT /orders/:id/status requests in flight, by slot
  products,      \* Product table: id -> row
  fetch,         \* the GET /products/:id requests in flight, by slot
  list,          \* the paginated listing request in flight
  stats,         \* the GET /stats request in flight
  resp           \* the response sent by the step just taken, or NoResp

addrVars == <<addresses, nextId, req>>
orderVars == <<orders, now, everDelivered, upd>>
prodVars == <<products, fetch>>
vars == <<addresses, nextId, req, orders, now, everDelivered, upd, products,
          fetch, list, stats, resp>>
notAddresses == <<orderVars, prodVars, list, stats>>
notOrders == <<addrVars, prodVars, list, stats>>
notProducts == <<addrVars, orderVars, list, stats>>
notListing == <<addrVars, orderVars, prodVars, stats>>
notStats == <<addrVars, orderVars, prodVars, list>>

(* ---------------------------- bounds ----------------------------------- *)
\* address rows ever created (ids are never reused)
MaxAddr == 2
\* request slots that can be in flight at once
NumReqs == 2
\* rows of the Order table
NumOrders == 2
\* the last clock value
MaxClock == 2
\* PUT /orders/:id/status requests that can be in flight at once
NumUpd == 2
\* rows that product creation fills the Product table up to
MaxProducts == 2
\* the highest viewCount a fetch counts up to
MaxViews == 2
\* GET /products/:id requests that can be in flight at once
NumFetch == 2
\* the highest page and limit a listing is asked for
MaxPage == 2
MaxLimit == 2

Users == {"u1", "u2"}
Reqs == 1..NumReqs
AddrIds == 1..MaxAddr
OrderIds == 1..NumOrders
Upds == 1..NumUpd
Fetches == 1..NumFetch

NoResp == [kind |-> "none"]

(* ======================= routes/users: addresses ======================= *)

\* req.body.isDefault of the address handlers; "absent" is a body that does
\* not carry the field (undefined).  The other body fields (type, name,
\* street, ...) are copied into the row and read by no handler: they are left
\* out of the rows.
IsDefaultValues == {"true", "false", "absent"}

\* JavaScript truthiness of body.isDefault
Truthy(v) == v = "true"

IdleReq ==
  [pc |-> "idle", op |-> "none", caller |-> "none", target |-> 0,
   isDefault |-> "absent", clean |-> TRUE, before |-> 0]

\* the ids of user u's addresses that carry isDefault = true
DefaultsOf(addrs, u) ==
  {i \in DOMAIN addrs : addrs[i].userId = u /\ addrs[i].isDefault}

\* faulty variant of UpdateManyUnset: the other defaults are not cleared
UnsetNothing(addrs, u, notId) == addrs

\* faulty variant of UpdateManyUnset: update in place of updateMany, only the
\* first matching row is cleared
UnsetFirst(addrs, u, notId) ==
  LET M == {i \in DOMAIN addrs :
              addrs[i].userId = u /\ addrs[i].isDefault /\ i # notId}
  IN [i \in DOMAIN addrs |->
        IF i \in M /\ (\A j \in M : i <= j)
        THEN [addrs[i] EXCEPT !.isDefault = FALSE]
        ELSE addrs[i]]

\* prisma.address.updateMany({where: {userId, isDefault: true, id: {not}},
\*                            data: {isDefault: false}});
\* the create path has no id clause: notId = 0 matches no row.
UpdateManyUnset(addrs, u, notId) ==
  [i \in DOMAIN addrs |->
     IF addrs[i].userId = u /\ addrs[i].isDefault /\ i # notId
     THEN [addrs[i] EXCEPT !.isDefault = FALSE]
     ELSE addrs[i]]

\* prisma.address.create: isDefault: isDefault || false
CreateRow(u, isDefault) ==
  [userId |-> u, isDefault |-> Truthy(isDefault)]

\* prisma.address.update: a field that is undefined in data is left as it is
UpdateRow(row, isDefault) ==
  [row EXCEPT
     !.isDefault = IF isDefault = "absent" THEN @ ELSE (isDefault = "true")]

\* faulty variant of OwnedBy: the owner is not compared
ExistsOnly(addrs, id, u) == id \in DOMAIN addrs

\* !existing || existing.userId !== req.user.id  is the negation of this
OwnedBy(addrs, id, u) == id \in DOMAIN addrs /\ addrs[id].userId = u

\* the response of an address handler, sent by request slot r
AddrResp(r, status, target) ==
  [kind |-> "address", op |-> req[r].op, caller |-> req[r].caller,
   target |-> target, isDefault |-> req[r].isDefault, status |-> status,
   clean |-> req[r].clean, before |-> req[r].before]

\* a database call of slot r has run: every other request in flight that
\* sets a default has had another request's step between its own steps
Interleave(r, rq) ==
  [s \in Reqs |->
     IF s # r /\ rq[s].pc # "idle" /\ Truthy(rq[s].isDefault)
     THEN [rq[s] EXCEPT !.clean = FALSE]
     ELSE rq[s]]

\* the number of u's default addresses when a request that sets a default
\* arrives (0 for the other requests)
Before(u, isDefault) ==
  IF Truthy(isDefault) THEN Cardinality(DefaultsOf(addresses, u)) ELSE 0

\* requests are taken by the lowest free slot
FreeSlot(r) == req[r].pc = "idle" /\ \A s \in Reqs : s < r => req[s].pc # "idle"

Finish(r) == Interleave(r, [req EXCEPT ![r] = IdleReq])

Goto(r, pc) == Interleave(r, [req EXCEPT ![r].pc = pc])

\* POST /addresses arrives; validationResult(req) is empty or not
PostReceive(r, u, isDefault, valid) ==
  /\ FreeSlot(r)
  /\ IF valid
     THEN /\ req' = [req EXCEPT ![r] =
                 [pc |-> IF Truthy(isDefault) THEN "unset" ELSE "write",
                  op |-> "POST", caller |-> u, target |-> 0,
                  isDefault |-> isDefault, clean |-> TRUE,
                  before |-> Before(u, isDefault)]]
          /\ resp' = NoResp
     ELSE /\ req' = req
          /\ resp' = [kind |-> "address", op |-> "POST",
                      caller |-> u, target |-> 0,
                      isDefault |-> isDefault, status |-> 400,
                      clean |-> TRUE, before |-> Before(u, isDefault)]
  /\ UNCHANGED <<addresses, nextId>>
  /\ UNCHANGED notAddresses

\* PUT /addresses/:id or DELETE /addresses/:id arrives
FindReceive(r, op, u, id, isDefault) ==
  /\ FreeSlot(r)
  /\ op \in {"PUT", "DELETE"}
  /\ op = "DELETE" => isDefault = "absent"
  /\ req' = [req EXCEPT ![r] =
               [pc |-> "find", op |-> op, caller |-> u, target |-> id,
                isDefault |-> isDefault, clean |-> TRUE,
                before |-> Before(u, isDefault)]]
  /\ resp' = NoResp
  /\ UNCHANGED <<addresses, nextId>>
  /\ UNCHANGED notAddresses

\* POST: await prisma.address.updateMany(...)
PostUnset(r) ==
  /\ req[r].op = "POST" /\ req[r].pc = "unset"
  /\ addresses' = UpdateManyUnset(addresses, req[r].caller, 0)
  /\ req' = Goto(r, "write")
  /\ resp' = NoResp
  /\ UNCHANGED nextId
  /\ UNCHANGED notAddresses

\* POST: await prisma.address.create(...); res.status(201)
PostCreate(r) ==
  /\ req[r].op = "POST" /\ req[r].pc = "write"
  /\ nextId <= MaxAddr
  /\ addresses' = [i \in DOMAIN addresses \cup {nextId} |->
                     IF i = nextId
                     THEN CreateRow(req[r].caller, req[r].isDefault)
                     ELSE addresses[i]]
  /\ nextId' = nextId + 1
  /\ resp' = AddrResp(r, 201, nextId)
  /\ req' = Finish(r)
  /\ UNCHANGED notAddresses

\* PUT, DELETE: await prisma.address.findUnique(...) and the ownership check
Find(r) ==
  /\ req[r].pc = "find"
  /\ IF OwnedBy(addresses, req[r].target, req[r].caller)
     THEN /\ req' = Goto(r, IF req[r].op = "DELETE" THEN "delete"
                            ELSE IF Truthy(req[r].isDefault) THEN "unset"
                            ELSE "write")
          /\ resp' = NoResp
     ELSE /\ req' = Finish(r)
          /\ resp' = AddrResp(r, 404, req[r].target)
  /\ UNCHANGED <<addresses, nextId>>
  /\ UNCHANGED notAddresses

\* PUT: await prisma.address.updateMany(... id: {not: req.params.id} ...)
PutUnset(r) ==
  /\ req[r].op = "PUT" /\ req[r].pc = "unset"
  /\ addresses' = UpdateManyUnset(addresses, req[r].caller, req[r].target)
  /\ req' = Goto(r, "write")
  /\ resp' = NoResp
  /\ UNCHANGED nextId
  /\ UNCHANGED notAddresses

\* PUT: await prisma.address.update(...); the update of a row that is gone
\* throws, and the catch answers 500
PutUpdate(r) ==
  /\ req[r].op = "PUT" /\ req[r].pc = "write"
  /\ IF req[r].target \in DOMAIN addresses
     THEN /\ addresses' = [addresses EXCEPT ![req[r].target] =
                             UpdateRow(@, req[r].isDefault)]
          /\ resp' = AddrResp(r, 200, req[r].target)
     ELSE /\ addresses' = addresses
          /\ resp' = AddrResp(r, 500, req[r].target)
  /\ req' = Finish(r)
  /\ UNCHANGED nextId
  /\ UNCHANGED notAddresses

\* DELETE: await prisma.address.delete(...); a row that is gone throws
DeleteRow(r) ==
  /\ req[r].op = "DELETE" /\ req[r].pc = "delete"
  /\ IF req[r].target \in DOMAIN addresses
     THEN /\ addresses' = [i \in DOMAIN addresses \ {req[r].target} |->
                             addresses[i]]
          /\ resp' = AddrResp(r, 200, req[r].target)
     ELSE /\ addresses' = addresses
          /\ resp' = AddrResp(r, 500, req[r].target)
  /\ req' = Finish(r)
  /\ UNCHANGED nextId
  /\ UNCHANGED notAddresses

\* the database call the request is waiting for throws: catch, 500
DbError(r) ==
  /\ req[r].pc # "idle"
  /\ resp' = AddrResp(r, 500, req[r].target)
  /\ req' = [req EXCEPT ![r] = IdleReq]
  /\ UNCHANGED <<addresses, nextId>>
  /\ UNCHANGED notAddresses

InitAddresses ==
  /\ addresses = [i \in {} |-> [userId |-> "u1", isDefault |-> FALSE]]
  /\ nextId = 1
  /\ req = [r \in Reqs |-> IdleReq]

NextAddresses ==
  \E r \in Reqs :
    \/ \E u \in Users, d \in IsDefaultValues, valid \in BOOLEAN :
         PostReceive(r, u, d, valid)
    \/ \E op \in {"PUT", "DELETE"}, u \in Users, id \in AddrIds,
          d \in IsDefaultValues : FindReceive(r, op, u, id, d)
    \/ PostUnset(r)
    \/ PostCreate(r)
    \/ Find(r)
    \/ PutUnset(r)
    \/ PutUpdate(r)
    \/ DeleteRow(r)
    \/ DbError(r)

(* ----------------------- claims on the addresses ----------------------- *)

\* the two database steps of a PUT with isDefault = true, applied to a table
SetDefaultAgain(addrs, u, id) ==
  [UpdateManyUnset(addrs, u, id) EXCEPT ![id] = UpdateRow(@, "true")]

\* a POST or PUT with isDefault = true has just answered 201/200 and no step
\* of another request fell between its steps
SetDefaultDone ==
  /\ resp.kind = "address"
  /\ resp.op \in {"POST", "PUT"}
  /\ resp.status \in {200, 201}
  /\ Truthy(resp.isDefault)
  /\ resp.clean

\* C1: when a create or update with isDefault = true answers success and no
\* other request interleaved, the caller's only default address is the one
\* created or updated, however many were default before; running the update's
\* two writes again leaves the table as it is.
C1_ExactlyOneDefault ==
  SetDefaultDone =>
    /\ DefaultsOf(addresses, resp.caller) = {resp.target}
    /\ SetDefaultAgain(addresses, resp.caller, resp.target) = addresses

\* an update answered success for a user who had two default addresses
C1_Witness ==
  /\ SetDefaultDone
  /\ resp.op = "PUT"
  /\ resp.before >= 2

\* C2: in every reachable state each user has at most one default address.
C2_AtMostOneDefault ==
  \A u \in Users : Cardinality(DefaultsOf(addresses, u)) <= 1

\* request r is a PUT or DELETE in flight on an address of another user
ForeignTarget(r) ==
  /\ req[r].pc # "idle"
  /\ req[r].op \in {"PUT", "DELETE"}
  /\ req[r].target \in DOMAIN addresses
  /\ addresses[req[r].target].userId # req[r].caller

\* C3: every step of a PUT or DELETE on an address owned by another user
\* leaves the address table unchanged and ends the request, with 404 unless
\* the findUnique call itself threw.
C3_ForeignNotFound ==
  [][\A r \in Reqs :
       (ForeignTarget(r) /\ req'[r].pc # req[r].pc) =>
         /\ addresses' = addresses
         /\ req'[r].pc = "idle"
         /\ resp'.kind = "address"
         /\ resp'.op = req[r].op /\ resp'.caller = req[r].caller
         /\ (resp'.status = 404 \/ DbError(r))]_vars

\* a PUT carrying isDefault = true on another user's address answered 404
C3_Witness ==
  /\ resp.kind = "address"
  /\ resp.op = "PUT"
  /\ resp.status = 404
  /\ Truthy(resp.isDefault)
  /\ resp.target \in DOMAIN addresses
  /\ addresses[resp.target].userId # resp.caller
  /\ DefaultsOf(addresses, resp.caller) # {}

\* the step taken is the failure of the second write of request r, a POST or
\* PUT with isDefault = true whose updateMany has run: the create or update
\* throws, or the row to update is gone
SecondWriteFails(r) ==
  /\ req[r].op \in {"POST", "PUT"}
  /\ req[r].pc = "write"
  /\ Truthy(req[r].isDefault)
  /\ \/ DbError(r)
     \/ PutUpdate(r) /\ req[r].target \notin DOMAIN addresses

\* C12 as stated, read for a request that no other request's database call
\* falls between: when the second write of a create or update with
\* isDefault = true fails, the request ends with 500, no row changes, and the
\* caller has no default address.
C12_ZeroDefaults ==
  [][\A r \in Reqs :
       SecondWriteFails(r) =>
         /\ resp'.kind = "address" /\ resp'.status = 500
         /\ req'[r] = IdleReq
         /\ addresses' = addresses
         /\ req[r].clean => DefaultsOf(addresses', req[r].caller) = {}]_vars

\* C12 (amended): when the second write of a create or update with
\* isDefault = true fails, the request ends with 500 and takes no further
\* step, and the failing step changes no row, so the clearing stays; if no
\* other request's database call fell between the request's steps, the
\* caller is left with no default address, except that a failed update
\* leaves its own target default when the target was default already.
C12_FailedSecondWrite ==
  [][\A r \in Reqs :
       SecondWriteFails(r) =>
         /\ resp'.kind = "address" /\ resp'.status = 500
         /\ resp'.op = req[r].op /\ resp'.caller = req[r].caller
         /\ req'[r] = IdleReq
         /\ addresses' = addresses
         /\ req[r].clean =>
              DefaultsOf(addresses', req[r].caller) \subseteq
                (IF req[r].op = "PUT" THEN {req[r].target} ELSE {})]_vars

\* a create or update with isDefault = true, for a caller who had a default
\* address, answered 500 after its clearing: the caller has addresses and
\* none of them is default
C12_Witness ==
  /\ resp.kind = "address"
  /\ resp.op \in {"POST", "PUT"}
  /\ resp.status = 500
  /\ Truthy(resp.isDefault)
  /\ resp.clean
  /\ resp.before >= 1
  /\ \E i \in DOMAIN addresses : addresses[i].userId = resp.caller
  /\ DefaultsOf(addresses, resp.caller) = {}

(* ===================== routes/admin.ts: orders ========================= *)

\* the values of Order.status the handlers name
Statuses == {"PENDING", "CONFIRMED", "DELIVERED"}

\* Order.total of the rows the table starts with
OrderTotals == {0, 10, 25}

\* deliveredAt = 0 is null; the clock starts at 1
IsNull(t) == t = 0

\* faulty variant of StatusUpdateData: deliveredAt is stamped on every update
AlwaysStamp(status, t) == [status |-> status, deliveredAt |-> <<t>>]

\* faulty variant of StatusUpdateData: deliveredAt is cleared on leaving
\* DELIVERED
ClearOnLeave(status, t) ==
  [status |-> status,
   deliveredAt |-> IF status = "DELIVERED" THEN <<t>> ELSE <<0>>]

\* data: { status, ...(status === 'DELIVERED' && { deliveredAt: new Date() }) }
\* built when the handler runs, at clock t; deliveredAt is <<>> when the
\* object does not carry it
StatusUpdateData(status, t) ==
  [status |-> status,
   deliveredAt |-> IF status = "DELIVERED" THEN <<t>> ELSE <<>>]

\* prisma.order.update({where: {id}, data}) on a row: a column data does not
\* carry is left as it is
UpdateOrder(row, data) ==
  [row EXCEPT !.status = data.status,
              !.deliveredAt = IF data.deliveredAt = <<>> THEN @
                              ELSE data.deliveredAt[1]]

\* the update on the table; an id with no row throws and writes nothing
WriteOrder(rows, o, data) ==
  IF o \in DOMAIN rows THEN [rows EXCEPT ![o] = UpdateOrder(@, data)]
  ELSE rows

\* res.json(order), or the catch's 500
OrderStatusResp(rows, o, status) ==
  IF o \in DOMAIN rows
  THEN [kind |-> "orderStatus", code |-> 200, id |-> o, sent |-> status,
        order |-> rows[o]]
  ELSE [kind |-> "orderStatus", code |-> 500, id |-> o, sent |-> status]

\* the history after the update of order o with data
DeliveredAfter(ever, rows, o, data) ==
  IF o \in DOMAIN rows /\ data.status = "DELIVERED" THEN ever \cup {o}
  ELSE ever

IdleUpd == [pc |-> "idle"]

\* PUT /orders/:id/status arrives: the handler builds data, reading the
\* clock, and issues prisma.order.update
OrderStatusReceive(u, o, status) ==
  /\ upd[u].pc = "idle"
  /\ \A v \in Upds : v < u => upd[v].pc # "idle"
  /\ upd' = [upd EXCEPT ![u] = [pc |-> "update", id |-> o,
                                data |-> StatusUpdateData(status, now)]]
  /\ resp' = NoResp
  /\ UNCHANGED <<orders, now, everDelivered>>
  /\ UNCHANGED notOrders

\* the database runs the update of slot u; res.json(order) or the catch's 500
OrderStatusWrite(u) ==
  /\ upd[u].pc = "update"
  /\ orders' = WriteOrder(orders, upd[u].id, upd[u].data)
  /\ everDelivered' =
       DeliveredAfter(everDelivered, orders, upd[u].id, upd[u].data)
  /\ resp' = OrderStatusResp(orders', upd[u].id, upd[u].data.status)
  /\ upd' = [upd EXCEPT ![u] = IdleUpd]
  /\ UNCHANGED now
  /\ UNCHANGED notOrders

\* time passes
Tick ==
  /\ now < MaxClock
  /\ now' = now + 1
  /\ resp' = NoResp
  /\ UNCHANGED <<orders, everDelivered, upd>>
  /\ UNCHANGED notOrders

RECURSIVE SumTotal(_, _)
\* _sum: { total: true } over the rows with ids in S: null when S is empty
SumTotal(rows, S) ==
  IF S = {} THEN 0
  ELSE LET o == CHOOSE x \in S : TRUE
       IN rows[o].total + SumTotal(rows, S \ {o})

\* faulty variant of RevenueWhere: CONFIRMED orders are left out
OnlyDelivered(rows) ==
  {o \in DOMAIN rows : rows[o].status = "DELIVERED"}

\* where: { status: { in: ['DELIVERED', 'CONFIRMED'] } }
RevenueWhere(rows) ==
  {o \in DOMAIN rows : rows[o].status \in {"DELIVERED", "CONFIRMED"}}

\* prisma.order.aggregate({where, _sum: {total: true}})
Aggregate(rows) ==
  LET S == RevenueWhere(rows)
  IN IF S = {} THEN [isNull |-> TRUE, total |-> 0]
     ELSE [isNull |-> FALSE, total |-> SumTotal(rows, S)]

\* totalRevenue._sum.total || 0
OrZero(agg) == IF agg.isNull \/ agg.total = 0 THEN 0 ELSE agg.total

\* the five database calls GET /stats issues in one Promise.all
StatsCalls ==
  {"totalOrders", "pendingOrders", "totalRevenue", "totalUsers",
   "lowStockProducts"}

IdleStats == [pc |-> "idle"]

\* GET /stats arrives and issues its five calls; none has run yet
StatsReceive ==
  /\ stats.pc = "idle"
  /\ stats' = [pc |-> "query", done |-> {}, totalOrders |-> 0,
               pendingOrders |-> 0,
               totalRevenue |-> [isNull |-> TRUE, total |-> 0],
               totalUsers |-> 0, lowStockProducts |-> 0]
  /\ resp' = NoResp
  /\ UNCHANGED notStats

\* call c of the Promise.all is still to run
Pending(c) == stats.pc = "query" /\ c \notin stats.done

\* prisma.order.count()
StatsCountOrders ==
  /\ Pending("totalOrders")
  /\ stats' = [stats EXCEPT !.done = @ \cup {"totalOrders"},
                            !.totalOrders = Cardinality(DOMAIN orders)]
  /\ resp' = NoResp
  /\ UNCHANGED notStats

\* prisma.order.count({ where: { status: 'PENDING' } })
StatsCountPending ==
  /\ Pending("pendingOrders")
  /\ stats' = [stats EXCEPT
                 !.done = @ \cup {"pendingOrders"},
                 !.pendingOrders =
                   Cardinality({o \in DOMAIN orders :
                                  orders[o].status = "PENDING"})]
  /\ resp' = NoResp
  /\ UNCHANGED notStats

\* prisma.order.aggregate(...)
StatsAggregate ==
  /\ Pending("totalRevenue")
  /\ stats' = [stats EXCEPT !.done = @ \cup {"totalRevenue"},
                            !.totalRevenue = Aggregate(orders)]
  /\ resp' = NoResp
  /\ UNCHANGED notStats

\* prisma.user.count()
StatsCountUsers ==
  /\ Pending("totalUsers")
  /\ stats' = [stats EXCEPT !.done = @ \cup {"totalUsers"},
                            !.totalUsers = Cardinality(Users)]
  /\ resp' = NoResp
  /\ UNCHANGED notStats

\* prisma.product.count({ where: { stock: { lte: lowStockAlert } } })
StatsCountLowStock ==
  /\ Pending("lowStockProducts")
  /\ stats' = [stats EXCEPT
                 !.done = @ \cup {"lowStockProducts"},
                 !.lowStockProducts =
                   Cardinality({p \in DOMAIN products :
                                  products[p].stock <= products[p].lowStockAlert})]
  /\ resp' = NoResp
  /\ UNCHANGED notStats

\* the Promise.all has resolved: res.json({...})
StatsRespond ==
  /\ stats.pc = "query" /\ stats.done = StatsCalls
  /\ resp' = [kind |-> "stats",
              totalOrders |-> stats.totalOrders,
              pendingOrders |-> stats.pendingOrders,
              totalRevenue |-> OrZero(stats.totalRevenue),
              totalUsers |-> stats.totalUsers,
              lowStockProducts |-> stats.lowStockProducts]
  /\ stats' = IdleStats
  /\ UNCHANGED notStats

\* req.query.startDate and req.query.endDate of the sales report: absent, or
\* a date string that new Date() parses, written as the clock value it names
DateValues == {<<>>} \cup {<<d>> : d \in 1..NumOrders}

\* where = {status: {in: ['DELIVERED', 'CONFIRMED']}}, and
\* if (startDate && endDate) where.createdAt = {gte, lte}
SalesWhere(rows, startDate, endDate) ==
  {o \in RevenueWhere(rows) :
     (startDate # <<>> /\ endDate # <<>>) =>
       (rows[o].createdAt >= startDate[1] /\ rows[o].createdAt <= endDate[1])}

\* orders.reduce((sum, order) => sum + order.total, 0)
ReduceTotal(rows, S) == SumTotal(rows, S)

RECURSIVE Gcd(_, _)
Gcd(a, b) == IF b = 0 THEN a ELSE Gcd(b, a % b)

\* the number 0 as a quotient
ZeroValue == [nan |-> FALSE, num |-> 0, den |-> 1]

\* a / b of two numbers, b >= 0: 0 / 0 is NaN; otherwise the quotient, kept
\* as a fraction in lowest terms
Divide(a, b) ==
  IF b = 0 THEN [nan |-> TRUE, num |-> 0, den |-> 1]
  ELSE LET g == Gcd(a, b)
       IN [nan |-> FALSE, num |-> a \div g, den |-> b \div g]

\* faulty variant of OrZeroValue: a NaN quotient is passed on
KeepNaN(q) == q

\* q || 0: NaN and 0 are falsy
OrZeroValue(q) == IF q.nan \/ q.num = 0 THEN ZeroValue ELSE q

\* GET /reports/sales: one findMany, then the sums in memory
SalesReport(startDate, endDate) ==
  /\ LET found == SalesWhere(orders, startDate, endDate)
         totalRevenue == ReduceTotal(orders, found)
         totalOrders == Cardinality(found)
     IN resp' = [kind |-> "sales", startDate |-> startDate,
                 endDate |-> endDate,
                 totalRevenue |-> totalRevenue,
                 totalOrders |-> totalOrders,
                 averageOrderValue |->
                   OrZeroValue(Divide(totalRevenue, totalOrders)),
                 orders |-> found]
  /\ UNCHANGED orderVars
  /\ UNCHANGED notOrders

InitOrders ==
  /\ \E t \in [OrderIds -> OrderTotals] :
       orders = [o \in OrderIds |->
                   [status |-> "PENDING", deliveredAt |-> 0, total |-> t[o],
                    createdAt |-> o]]
  /\ now = 1
  /\ everDelivered = {}
  /\ stats = IdleStats
  /\ upd = [u \in Upds |-> IdleUpd]

\* the Order table the dashboard is asked about: two totals that differ
DashboardOrders ==
  /\ orders = [o \in OrderIds |->
                 [status |-> "PENDING", deliveredAt |-> 0,
                  total |-> IF o = 1 THEN 10 ELSE 25, createdAt |-> o]]
  /\ now = 1
  /\ everDelivered = {}
  /\ stats = IdleStats
  /\ upd = [u \in Upds |-> IdleUpd]

\* one Order table the other specifications start from
QuietOrders ==
  /\ orders = [o \in OrderIds |->
                 [status |-> "PENDING", deliveredAt |-> 0, total |-> 10,
                  createdAt |-> o]]
  /\ now = 1
  /\ everDelivered = {}
  /\ stats = IdleStats
  /\ upd = [u \in Upds |-> IdleUpd]

NextOrders ==
  \/ \E u \in Upds, o \in 1..(NumOrders + 1), s \in Statuses :
       OrderStatusReceive(u, o, s)
  \/ \E u \in Upds : OrderStatusWrite(u)
  \/ Tick

\* the sales report beside the status updates that decide what it reads,
\* one update in flight at a time
NextSales ==
  \/ \E o \in 1..(NumOrders + 1), s \in Statuses :
       OrderStatusReceive(1, o, s)
  \/ OrderStatusWrite(1)
  \/ Tick
  \/ \E sd \in DateValues, ed \in DateValues : SalesReport(sd, ed)

(* ------------------------ claims on the orders ------------------------- *)

\* C4: a status update to DELIVERED leaves the order with a non-null
\* deliveredAt; a status update to any other status changes the order's
\* status and nothing else, deliveredAt included; no other order changes.
C4_DeliveredAtStamp ==
  [][(resp'.kind = "orderStatus" /\ resp'.code = 200) =>
       LET o == resp'.id
           s == resp'.sent
       IN /\ orders'[o].status = s
          /\ resp'.order = orders'[o]
          /\ \A x \in DOMAIN orders \ {o} : orders'[x] = orders[x]
          /\ IF s = "DELIVERED"
             THEN /\ ~IsNull(orders'[o].deliveredAt)
                  /\ [orders'[o] EXCEPT !.deliveredAt = 0]
                       = [orders[o] EXCEPT !.status = s, !.deliveredAt = 0]
             ELSE orders'[o] = [orders[o] EXCEPT !.status = s]]_vars

\* an order delivered earlier was given another status and kept its timestamp
C4_Witness ==
  /\ resp.kind = "orderStatus" /\ resp.code = 200
  /\ resp.sent # "DELIVERED"
  /\ ~IsNull(orders[resp.id].deliveredAt)
  /\ orders[resp.id].status = resp.sent

\* C5: from orders that are not DELIVERED and have a null deliveredAt, after
\* any status updates an order's deliveredAt is non-null exactly when its
\* status was at some point set to DELIVERED.
C5_DeliveredIffEver ==
  \A o \in DOMAIN orders :
    ~IsNull(orders[o].deliveredAt) <=> o \in everDelivered

\* an order that was moved away from DELIVERED, and one never delivered
C5_Witness ==
  \E o, x \in DOMAIN orders :
    /\ orders[o].status = "PENDING"
    /\ o \in everDelivered
    /\ ~IsNull(orders[o].deliveredAt)
    /\ orders[x].status = "CONFIRMED" /\ x \notin everDelivered

RECURSIVE RevenueUpTo(_)
\* the sum of total over the orders 1..n that are DELIVERED or CONFIRMED
RevenueUpTo(n) ==
  IF n = 0 THEN 0
  ELSE RevenueUpTo(n - 1) +
       (IF orders[n].status = "DELIVERED" \/ orders[n].status = "CONFIRMED"
        THEN orders[n].total ELSE 0)

\* the step being taken is the aggregate call of the stats request in flight
AggregateStep ==
  /\ stats.pc = "query" /\ "totalRevenue" \notin stats.done
  /\ stats'.pc = "query" /\ "totalRevenue" \in stats'.done

\* C10: the aggregate call of a stats request returns the sum of total over
\* exactly the orders that are DELIVERED or CONFIRMED when it runs, whatever
\* status updates came before, and null when there is none; the response
\* reports that sum as totalRevenue, and 0 for null.
C10_TotalRevenue ==
  [][/\ AggregateStep =>
          LET none == \A o \in OrderIds :
                        orders[o].status \notin {"DELIVERED", "CONFIRMED"}
          IN /\ stats'.totalRevenue.isNull <=> none
             /\ ~none => stats'.totalRevenue.total = RevenueUpTo(NumOrders)
     /\ (stats.pc = "query" /\ stats'.pc = "idle") =>
          /\ resp'.kind = "stats"
          /\ resp'.totalRevenue =
               (IF stats.totalRevenue.isNull THEN 0
                ELSE stats.totalRevenue.total)]_vars

\* stats sent while one order is CONFIRMED and one, delivered earlier, is
\* PENDING again: the revenue is that of the CONFIRMED order, not the sum
\* over all orders
C10_Witness ==
  /\ resp.kind = "stats"
  /\ resp.totalRevenue > 0
  /\ resp.totalRevenue = RevenueUpTo(NumOrders)
  /\ \E o, x \in OrderIds :
       /\ orders[o].status = "CONFIRMED"
       /\ orders[x].status = "PENDING" /\ orders[x].total > 0
       /\ x \in everDelivered

\* the orders 1..n the sales report with the dates of resp is about: those
\* DELIVERED or CONFIRMED, created within the range when both dates are given
ReportedUpTo(n) ==
  {o \in 1..n :
     /\ orders[o].status = "DELIVERED" \/ orders[o].status = "CONFIRMED"
     /\ (resp.startDate # <<>> /\ resp.endDate # <<>>) =>
          (resp.startDate[1] <= orders[o].createdAt
             /\ orders[o].createdAt <= resp.endDate[1])}

RECURSIVE ReportedRevenueUpTo(_)
\* the sum of total over ReportedUpTo(n)
ReportedRevenueUpTo(n) ==
  IF n = 0 THEN 0
  ELSE ReportedRevenueUpTo(n - 1) +
       (IF n \in ReportedUpTo(n) THEN orders[n].total ELSE 0)

\* C11: the sales report returns as totalOrders the number of DELIVERED or
\* CONFIRMED orders in the date range, as totalRevenue the sum of their
\* totals, and as averageOrderValue the quotient totalRevenue / totalOrders
\* when totalOrders > 0 and 0 when totalOrders = 0.
C11_SalesReport ==
  resp.kind = "sales" =>
    /\ resp.totalOrders = Cardinality(ReportedUpTo(NumOrders))
    /\ resp.totalRevenue = ReportedRevenueUpTo(NumOrders)
    /\ resp.orders = ReportedUpTo(NumOrders)
    /\ ~resp.averageOrderValue.nan
    /\ IF resp.totalOrders > 0
       THEN resp.averageOrderValue.num * resp.totalOrders
              = resp.totalRevenue * resp.averageOrderValue.den
       ELSE resp.averageOrderValue = ZeroValue

\* a report over two of the orders, one of them delivered, whose average is
\* not a whole number
C11_Witness ==
  /\ resp.kind = "sales"
  /\ resp.startDate # <<>> /\ resp.endDate # <<>>
  /\ \E o \in OrderIds : orders[o].status = "DELIVERED"
  /\ resp.totalOrders = 2
  /\ resp.totalRevenue = 35
  /\ resp.averageOrderValue = [nan |-> FALSE, num |-> 35, den |-> 2]

(* ============ routes/products.ts and routes/admin.ts: products ========= *)

\* Strings that are searched or rewritten are sequences of characters.
\* String.prototype.toLowerCase, on the letters the model's strings use
LowerChar(c) ==
  CASE c = "S" -> "s"
    [] c = "R" -> "r"
    [] c = "A" -> "a"
    [] c = "I" -> "i"
    [] OTHER -> c

ToLower(str) == [i \in 1..Len(str) |-> LowerChar(str[i])]

RECURSIVE DropSpaces(_)
DropSpaces(str) ==
  IF str # <<>> /\ Head(str) = " " THEN DropSpaces(Tail(str)) ELSE str

RECURSIVE ReplaceSpaceRuns(_)
\* .replace(/\s+/g, '-')
ReplaceSpaceRuns(str) ==
  IF str = <<>> THEN <<>>
  ELSE IF Head(str) = " "
       THEN <<"-">> \o ReplaceSpaceRuns(DropSpaces(str))
       ELSE <<Head(str)>> \o ReplaceSpaceRuns(Tail(str))

\* slug: req.body.name.toLowerCase().replace(/\s+/g, '-')
Slug(name) == ReplaceSpaceRuns(ToLower(name))

\* the catalog row the specifications start from
Silk ==
  [name |-> <<"S", "i", "l", "k">>, slug |-> <<"s", "i", "l", "k">>,
   brand |-> <<"S", "o">>, description |-> <<"r", "e", "d">>,
   category |-> "Accessories", price |-> 10, stock |-> 5, lowStockAlert |-> 5,
   isActive |-> TRUE, isFeatured |-> TRUE, viewCount |-> 0, salesCount |-> 3,
   createdAt |-> 1]

\* req.body of POST /products: every column but slug, which the handler adds
NewProductBodies ==
  { [name |-> <<"R", " ", " ", "k">>, brand |-> <<"A", "c">>,
     description |-> <<>>, category |-> "Bags", price |-> 60, stock |-> 9,
     lowStockAlert |-> 5, isActive |-> TRUE, isFeatured |-> FALSE,
     viewCount |-> 0, salesCount |-> 0] }

\* req.body of POST /products for a product the listings tell from Silk by
\* brand and price, and find by its description
ListedBodies ==
  { [name |-> <<"k", "i", "t">>, brand |-> <<"A", "c">>,
     description |-> <<"s", "I", "l", "k">>, category |-> "Accessories",
     price |-> 60, stock |-> 9, lowStockAlert |-> 5, isActive |-> TRUE,
     isFeatured |-> TRUE, viewCount |-> 0, salesCount |-> 0] }

\* req.body of PUT /products/:id: any columns, written as they come
CounterPatches == { [viewCount |-> 0, salesCount |-> 0] }
ActivePatches == { [isActive |-> TRUE] }

\* req.body.stock of PUT /products/:id/stock
StockValues == {5}

\* prisma.product.update({data}): the columns of data overwrite the row's
ApplyData(row, data) ==
  [f \in DOMAIN row |-> IF f \in DOMAIN data THEN data[f] ELSE row[f]]

\* POST /products: validationResult, then prisma.product.create with the
\* body's columns and the slug; the new row takes the next id
AdminCreate(body, valid) ==
  /\ IF valid
     THEN LET id == Cardinality(DOMAIN products) + 1
              row == [f \in DOMAIN body \cup {"slug", "createdAt"} |->
                        IF f = "slug" THEN Slug(body.name)
                        ELSE IF f = "createdAt" THEN id
                        ELSE body[f]]
          IN /\ id <= MaxProducts
             /\ products' = [i \in DOMAIN products \cup {id} |->
                               IF i = id THEN row ELSE products[i]]
             /\ resp' = [kind |-> "adminProduct", code |-> 201, id |-> id,
                         product |-> row]
     ELSE /\ products' = products
          /\ resp' = [kind |-> "adminProduct", code |-> 400, id |-> 0]
  /\ UNCHANGED fetch
  /\ UNCHANGED notProducts

\* prisma.product.update({where: {id}, data}) on the table
WriteProduct(rows, id, data) ==
  IF id \in DOMAIN rows THEN [rows EXCEPT ![id] = ApplyData(@, data)]
  ELSE rows

\* res.json(product), or the catch's 500 when the id has no row and the
\* update throws
AdminProductResp(rows, id) ==
  IF id \in DOMAIN rows
  THEN [kind |-> "adminProduct", code |-> 200, id |-> id, product |-> rows[id]]
  ELSE [kind |-> "adminProduct", code |-> 500, id |-> id]

\* PUT /products/:id: data: req.body
AdminUpdate(id, body) ==
  /\ products' = WriteProduct(products, id, body)
  /\ resp' = AdminProductResp(products', id)
  /\ UNCHANGED fetch
  /\ UNCHANGED notProducts

\* DELETE /products/:id: data: { isActive: false }
AdminDelete(id) ==
  /\ products' = WriteProduct(products, id, [isActive |-> FALSE])
  /\ resp' = IF id \in DOMAIN products
             THEN [kind |-> "adminProduct", code |-> 200, id |-> id,
                   message |-> "Product deactivated"]
             ELSE [kind |-> "adminProduct", code |-> 500, id |-> id]
  /\ UNCHANGED fetch
  /\ UNCHANGED notProducts

\* PUT /products/:id/stock: data: { stock }
AdminStock(id, stock) ==
  /\ products' = WriteProduct(products, id, [stock |-> stock])
  /\ resp' = AdminProductResp(products', id)
  /\ UNCHANGED fetch
  /\ UNCHANGED notProducts

IdleFetch == [pc |-> "idle", id |-> 0]

\* GET /products/:id arrives
FetchReceive(f, id) ==
  /\ fetch[f].pc = "idle"
  /\ \A g \in Fetches : g < f => fetch[g].pc # "idle"
  /\ fetch' = [fetch EXCEPT ![f] = [pc |-> "find", id |-> id]]
  /\ resp' = NoResp
  /\ UNCHANGED products
  /\ UNCHANGED notProducts

\* await prisma.product.findUnique(...); 404 when there is no row
FetchFind(f) ==
  /\ fetch[f].pc = "find"
  /\ IF fetch[f].id \in DOMAIN products
     THEN /\ fetch' = [fetch EXCEPT ![f] =
                         [pc |-> "incr", id |-> fetch[f].id,
                          product |-> products[fetch[f].id]]]
          /\ resp' = NoResp
     ELSE /\ fetch' = [fetch EXCEPT ![f] = IdleFetch]
          /\ resp' = [kind |-> "product", code |-> 404, id |-> fetch[f].id]
  /\ UNCHANGED products
  /\ UNCHANGED notProducts

\* faulty variant of IncrementView: the handler adds 1 to the value it read
\* and writes that back
WriteBackRead(row, read) == [row EXCEPT !.viewCount = read.viewCount + 1]

\* data: { viewCount: { increment: 1 } }: the store adds 1 to the stored
\* column in one statement (read is the row findUnique returned, unused)
IncrementView(row, read) == [row EXCEPT !.viewCount = @ + 1]

\* await prisma.product.update(... increment ...); res.json(product)
FetchIncrement(f) ==
  /\ fetch[f].pc = "incr"
  /\ products[fetch[f].id].viewCount < MaxViews
  /\ products' = [products EXCEPT ![fetch[f].id] =
                    IncrementView(@, fetch[f].product)]
  /\ resp' = [kind |-> "product", code |-> 200, id |-> fetch[f].id,
              product |-> fetch[f].product]
  /\ fetch' = [fetch EXCEPT ![f] = IdleFetch]
  /\ UNCHANGED notProducts

\* the catalog of one product, before any request
InitProducts ==
  /\ products = [i \in {1} |-> Silk]
  /\ fetch = [f \in Fetches |-> IdleFetch]
  /\ list = [pc |-> "idle"]

NextProducts ==
  \/ \E f \in Fetches, id \in 1..(MaxProducts + 1) : FetchReceive(f, id)
  \/ \E f \in Fetches : FetchFind(f)
  \/ \E f \in Fetches : FetchIncrement(f)
  \/ \E b \in NewProductBodies, valid \in BOOLEAN : AdminCreate(b, valid)
  \/ \E id \in 1..(MaxProducts + 1), b \in CounterPatches : AdminUpdate(id, b)
  \/ \E id \in 1..(MaxProducts + 1) : AdminDelete(id)
  \/ \E id \in 1..(MaxProducts + 1), st \in StockValues : AdminStock(id, st)

(* ----------------------- claims on the counters ------------------------ *)

\* slot f's increment step is the step being taken
Increments(f) == fetch[f].pc = "incr" /\ fetch'[f].pc = "idle"

\* C6: the increment step of every fetch of an existing product raises that
\* product's stored viewCount by exactly 1 and changes no other column or
\* product, whatever steps of other fetches came between its read and its
\* increment; the product a fetch returns is the row as stored when it read,
\* so it carries every increment completed before.
C6_ViewCountPlusOne ==
  [][\A f \in Fetches :
       /\ Increments(f) =>
            LET id == fetch[f].id
            IN /\ products' = [products EXCEPT ![id].viewCount = @ + 1]
               /\ resp'.kind = "product" /\ resp'.code = 200
               /\ resp'.product = fetch[f].product
       /\ (fetch[f].pc = "find" /\ fetch'[f].pc = "incr") =>
            fetch'[f].product = products[fetch[f].id]]_vars

\* a fetch has answered with the row it read, the stored counter is one
\* higher, and another fetch that read the same value is still to increment
C6_Witness ==
  /\ resp.kind = "product" /\ resp.code = 200
  /\ products[resp.id].viewCount = resp.product.viewCount + 1
  /\ \E f \in Fetches :
       /\ fetch[f].pc = "incr" /\ fetch[f].id = resp.id
       /\ fetch[f].product.viewCount = resp.product.viewCount
  /\ Cardinality(DOMAIN products) > 1

\* C7: over every step of the product and admin handlers no product's
\* viewCount or salesCount decreases, and a viewCount changes only by +1, in
\* the increment step of a fetch of that product.
C7_CountersMonotone ==
  [][\A p \in DOMAIN products :
       /\ products'[p].viewCount >= products[p].viewCount
       /\ products'[p].salesCount >= products[p].salesCount
       /\ products'[p].viewCount # products[p].viewCount =>
            /\ products'[p].viewCount = products[p].viewCount + 1
            /\ \E f \in Fetches : Increments(f) /\ fetch[f].id = p]_vars

(* ============ paginated listings: products, admin orders, users ======== *)

\* page = 1, limit = 20 of the destructuring defaults; take: 12
DefaultPage == 1
DefaultLimit == 20
FeaturedTake == 12

\* a query parameter is <<>> when the request does not carry it, <<v>> when
\* it does
Has(x) == x # <<>>
Val(x) == x[1]

NoQuery ==
  [category |-> <<>>, brand |-> <<>>, minPrice |-> <<>>, maxPrice |-> <<>>,
   search |-> <<>>, status |-> <<>>, page |-> <<>>, limit |-> <<>>,
   sortBy |-> <<>>, order |-> <<>>]

PageValues == {<<>>} \cup {<<n>> : n \in 1..MaxPage}
LimitValues == {<<>>} \cup {<<n>> : n \in 1..MaxLimit}

\* req.query of GET /products: every combination of the filters on the
\* first page (FilterQueries), and every page and limit, sorted by the
\* default or by price (PagedQueries)
FilterQueries ==
  [category : {<<>>, <<"All">>, <<"Accessories">>, <<"Bags">>},
   brand : {<<>>, << <<"S", "o">> >>},
   minPrice : {<<>>, <<10>>, <<11>>},
   maxPrice : {<<>>, <<50>>},
   search : {<<>>, << <<"S", "I">> >>, << <<"k", "I">> >>},
   status : {<<>>},
   page : {<<>>}, limit : {<<>>},
   sortBy : {<<>>}, order : {<<>>}]

PagedQueries ==
  {[NoQuery EXCEPT !.page = pg, !.limit = lm, !.sortBy = so[1],
                   !.order = so[2]] :
     pg \in PageValues, lm \in LimitValues,
     so \in {<< <<>>, <<>> >>, << <<"price">>, <<"asc">> >>}}

\* req.query of GET /orders (admin)
OrderQueries ==
  {[NoQuery EXCEPT !.status = st, !.page = pg, !.limit = lm] :
     st \in {<<>>, <<"PENDING">>, <<"DELIVERED">>},
     pg \in PageValues, lm \in LimitValues}

\* req.query of GET /users (admin)
UserQueries ==
  {[NoQuery EXCEPT !.page = pg, !.limit = lm] :
     pg \in PageValues, lm \in LimitValues}

\* the User table: no handler of these routes adds or removes a user
UserRows == [u \in Users |-> [createdAt |-> IF u = "u1" THEN 1 ELSE 2]]

RECURSIVE IsPrefixInsensitive(_, _)
IsPrefixInsensitive(needle, hay) ==
  \/ needle = <<>>
  \/ /\ hay # <<>>
     /\ LowerChar(Head(needle)) = LowerChar(Head(hay))
     /\ IsPrefixInsensitive(Tail(needle), Tail(hay))

RECURSIVE ContainsInsensitive(_, _)
\* { contains: search, mode: 'insensitive' }
ContainsInsensitive(hay, needle) ==
  \/ IsPrefixInsensitive(needle, hay)
  \/ hay # <<>> /\ ContainsInsensitive(Tail(hay), needle)

\* faulty variant of ProductWhere: where does not start from isActive: true
WhereWithoutActive(q, row) ==
  /\ (Has(q.category) /\ Val(q.category) # "All")
       => row.category = Val(q.category)
  /\ Has(q.brand) => row.brand = Val(q.brand)
  /\ Has(q.minPrice) => row.price >= Val(q.minPrice)
  /\ Has(q.maxPrice) => row.price <= Val(q.maxPrice)
  /\ Has(q.search) =>
       \/ ContainsInsensitive(row.name, Val(q.search))
       \/ ContainsInsensitive(row.brand, Val(q.search))
       \/ ContainsInsensitive(row.description, Val(q.search))

\* the where object GET /products builds, applied to a row
ProductWhere(q, row) ==
  /\ row.isActive
  /\ (Has(q.category) /\ Val(q.category) # "All")
       => row.category = Val(q.category)
  /\ Has(q.brand) => row.brand = Val(q.brand)
  /\ Has(q.minPrice) => row.price >= Val(q.minPrice)
  /\ Has(q.maxPrice) => row.price <= Val(q.maxPrice)
  /\ Has(q.search) =>
       \/ ContainsInsensitive(row.name, Val(q.search))
       \/ ContainsInsensitive(row.brand, Val(q.search))
       \/ ContainsInsensitive(row.description, Val(q.search))

\* the table a listing reads
Table(kind) ==
  CASE kind = "products" -> products
    [] kind = "orders" -> orders
    [] kind = "users" -> UserRows

\* the where of each listing
Where(kind, q, row) ==
  CASE kind = "products" -> ProductWhere(q, row)
    [] kind = "orders" -> (Has(q.status) => row.status = Val(q.status))
    [] kind = "users" -> TRUE

Matching(kind, q) ==
  {id \in DOMAIN Table(kind) : Where(kind, q, Table(kind)[id])}

\* orderBy: { [sortBy]: order } (products; createdAt, desc when absent),
\* orderBy: { createdAt: 'desc' } (orders, users)
SortKey(kind, q, row) ==
  IF kind = "products" /\ Has(q.sortBy) THEN row[Val(q.sortBy)]
  ELSE row.createdAt

Ascending(kind, q) == kind = "products" /\ Has(q.order) /\ Val(q.order) = "asc"

\* the orders in which the store can return the rows S sorted by key (a
\* function of the id): rows with equal keys come in any order
Orderings(S, key, asc) ==
  {s \in [1..Cardinality(S) -> S] :
     /\ \A i, j \in 1..Cardinality(S) : i # j => s[i] # s[j]
     /\ \A i, j \in 1..Cardinality(S) :
          i < j => IF asc THEN key[s[i]] <= key[s[j]]
                   ELSE key[s[i]] >= key[s[j]]}

ListOrderings(kind, q) ==
  LET key == [id \in DOMAIN Table(kind) |-> SortKey(kind, q, Table(kind)[id])]
  IN Orderings(Matching(kind, q), key, Ascending(kind, q))

\* Number(page), Number(limit)
PageOf(q) == IF Has(q.page) THEN Val(q.page) ELSE DefaultPage
LimitOf(q) == IF Has(q.limit) THEN Val(q.limit) ELSE DefaultLimit

\* skip = (Number(page) - 1) * Number(limit)
Skip(q) == (PageOf(q) - 1) * LimitOf(q)

\* findMany({skip, take}) on the sorted rows
Window(s, skip, take) ==
  LET last == IF skip + take < Len(s) THEN skip + take ELSE Len(s)
  IN IF skip >= Len(s) THEN <<>> ELSE SubSeq(s, skip + 1, last)

\* faulty variant of Pages: Math.floor
PagesFloor(total, limit) == total \div limit

\* Math.ceil(total / Number(limit))
Pages(total, limit) ==
  (total \div limit) + (IF total % limit = 0 THEN 0 ELSE 1)

IdleList == [pc |-> "idle"]

\* GET /products, GET /orders or GET /users arrives
ListReceive(kind, q) ==
  /\ list.pc = "idle"
  /\ list' = [pc |-> "query", kind |-> kind, q |-> q, items |-> <<>>,
              haveItems |-> FALSE, total |-> 0, haveTotal |-> FALSE]
  /\ resp' = NoResp
  /\ UNCHANGED notListing

\* the findMany of the Promise.all
ListFindMany ==
  /\ list.pc = "query" /\ ~list.haveItems
  /\ \E s \in ListOrderings(list.kind, list.q) :
       list' = [list EXCEPT !.items = Window(s, Skip(list.q), LimitOf(list.q)),
                            !.haveItems = TRUE]
  /\ resp' = NoResp
  /\ UNCHANGED notListing

\* the count of the Promise.all
ListCount ==
  /\ list.pc = "query" /\ ~list.haveTotal
  /\ list' = [list EXCEPT
                !.total = Cardinality(Matching(list.kind, list.q)),
                !.haveTotal = TRUE]
  /\ resp' = NoResp
  /\ UNCHANGED notListing

\* res.json({ rows, pagination: { page, limit, total, pages } })
ListRespond ==
  /\ list.pc = "query" /\ list.haveItems /\ list.haveTotal
  /\ resp' = [kind |-> "list", of |-> list.kind, status |-> list.q.status,
              items |-> list.items,
              pagination |->
                [page |-> PageOf(list.q), limit |-> LimitOf(list.q),
                 total |-> list.total,
                 pages |-> Pages(list.total, LimitOf(list.q))]]
  /\ list' = IdleList
  /\ UNCHANGED notListing

\* where: { isFeatured: true, isActive: true }
FeaturedWhere(row) == row.isFeatured /\ row.isActive

\* GET /products/featured/list: take 12, orderBy salesCount desc
Featured ==
  /\ LET key == [id \in DOMAIN products |-> products[id].salesCount]
         S == {id \in DOMAIN products : FeaturedWhere(products[id])}
     IN \E s \in Orderings(S, key, FALSE) :
          resp' = [kind |-> "featured", items |-> Window(s, 0, FeaturedTake)]
  /\ UNCHANGED list
  /\ UNCHANGED notListing

\* the Order table the listings are made from: one order delivered
ListedOrders ==
  /\ orders = [o \in OrderIds |->
                 [status |-> IF o = 1 THEN "DELIVERED" ELSE "PENDING",
                  deliveredAt |-> IF o = 1 THEN 1 ELSE 0,
                  total |-> 10, createdAt |-> o]]
  /\ now = 1
  /\ everDelivered = {1}
  /\ stats = IdleStats
  /\ upd = [u \in Upds |-> IdleUpd]

\* the product listings beside the handlers that write the Product table
NextCatalog ==
  \/ \E q \in FilterQueries : ListReceive("products", q)
  \/ ListFindMany
  \/ ListCount
  \/ ListRespond
  \/ Featured
  \/ \E b \in ListedBodies, valid \in BOOLEAN : AdminCreate(b, valid)
  \/ \E id \in 1..(MaxProducts + 1), b \in ActivePatches \cup CounterPatches :
       AdminUpdate(id, b)
  \/ \E id \in 1..(MaxProducts + 1) : AdminDelete(id)
  \/ \E id \in 1..(MaxProducts + 1), st \in StockValues : AdminStock(id, st)

\* the statuses the order listings are asked for and the updates beside
\* them send
ListedStatuses == {"PENDING", "DELIVERED"}

\* the paginated listings beside the handlers that change which rows of
\* their tables match: an order's status (one update in flight at a time),
\* a product's creation, deactivation and reactivation
NextListing ==
  \/ \E q \in PagedQueries : ListReceive("products", q)
  \/ \E q \in OrderQueries : ListReceive("orders", q)
  \/ \E q \in UserQueries : ListReceive("users", q)
  \/ ListFindMany
  \/ ListCount
  \/ ListRespond
  \/ \E b \in ListedBodies, valid \in BOOLEAN : AdminCreate(b, valid)
  \/ \E id \in 1..(MaxProducts + 1), b \in ActivePatches : AdminUpdate(id, b)
  \/ \E id \in 1..(MaxProducts + 1) : AdminDelete(id)
  \/ \E o \in 1..(NumOrders + 1), st \in ListedStatuses :
       OrderStatusReceive(1, o, st)
  \/ OrderStatusWrite(1)

(* ----------------------- claims on the listings ------------------------ *)

\* the step being taken is the findMany of the listing in flight
FindManyStep ==
  /\ list.pc = "query" /\ ~list.haveItems
  /\ list'.pc = "query" /\ list'.haveItems

\* str has sub at some position, letter case aside
HasSubstring(str, sub) ==
  \E i \in 1..(Len(str) - Len(sub) + 1) :
    ToLower(SubSeq(str, i, i + Len(sub) - 1)) = ToLower(sub)

\* row passes every filter the query supplies
SatisfiesFilters(q, row) ==
  /\ q.category \notin {<<>>, <<"All">>} => row.category = q.category[1]
  /\ q.brand # <<>> => row.brand = q.brand[1]
  /\ q.minPrice # <<>> => q.minPrice[1] <= row.price
  /\ q.maxPrice # <<>> => row.price <= q.maxPrice[1]
  /\ q.search # <<>> =>
       \E str \in {row.name, row.brand, row.description} :
         HasSubstring(str, q.search[1])

\* C8: the rows the product listing's findMany returns, and the rows the
\* featured listing returns, are active when they are read (so a product
\* that is deactivated is in none), and the product listing's rows pass
\* every filter the query supplies.
C8_OnlyActiveMatching ==
  [][/\ (FindManyStep /\ list.kind = "products") =>
          \A i \in 1..Len(list'.items) :
            /\ products[list'.items[i]].isActive
            /\ SatisfiesFilters(list.q, products[list'.items[i]])
     /\ resp'.kind = "featured" =>
          \A i \in 1..Len(resp'.items) :
            /\ products[resp'.items[i]].isActive
            /\ products[resp'.items[i]].isFeatured]_vars

\* a product listing with category, minPrice and search has read a row
\* while a deactivated product that passes the same filters is left out
C8_Witness ==
  /\ list.pc = "query" /\ list.haveItems /\ list.kind = "products"
  /\ list.q.category = <<"Accessories">>
  /\ list.q.minPrice # <<>> /\ list.q.search # <<>>
  /\ list.items # <<>>
  /\ \E p \in DOMAIN products :
       /\ ~products[p].isActive
       /\ SatisfiesFilters(list.q, products[p])
       /\ \A i \in 1..Len(list.items) : list.items[i] # p

\* C9: with page >= 1 and limit >= 1 (1 and 20 when absent) the findMany of
\* a listing returns the rows after the first (page-1)*limit of the sorted
\* matching rows, at most limit of them; the count is the number of matching
\* rows; the response reports that count as total and ceil(total/limit) as
\* pages.
C9_Pagination ==
  [][/\ FindManyStep =>
          LET page == IF list.q.page = <<>> THEN 1 ELSE list.q.page[1]
              limit == IF list.q.limit = <<>> THEN 20 ELSE list.q.limit[1]
              got == list'.items
          IN /\ Len(got) <= limit
             /\ \E s \in ListOrderings(list.kind, list.q) :
                  /\ \A i \in 1..Len(got) : got[i] = s[(page - 1) * limit + i]
                  /\ Len(got) < limit => Len(s) <= (page - 1) * limit + Len(got)
     /\ (list.pc = "query" /\ ~list.haveTotal /\ list'.haveTotal) =>
          list'.total = Cardinality(Matching(list.kind, list.q))
     /\ (list.pc = "query" /\ list'.pc = "idle") =>
          LET limit == IF list.q.limit = <<>> THEN 20 ELSE list.q.limit[1]
              pg == resp'.pagination
          IN /\ resp'.kind = "list"
             /\ resp'.items = list.items /\ Len(resp'.items) <= limit
             /\ pg.page = (IF list.q.page = <<>> THEN 1 ELSE list.q.page[1])
             /\ pg.limit = limit
             /\ pg.total = list.total
             /\ pg.pages * limit >= pg.total
             /\ pg.pages >= 0
             /\ pg.pages > 0 => (pg.pages - 1) * limit < pg.total]_vars

\* an order listing answers its second page of one row, and the row it read
\* no longer matches its filter: a status update ran before the response
C9_Witness ==
  /\ resp.kind = "list" /\ resp.of = "orders"
  /\ resp.pagination = [page |-> 2, limit |-> 1, total |-> 2, pages |-> 2]
  /\ Len(resp.items) = 1
  /\ resp.status = <<"PENDING">>
  /\ orders[resp.items[1]].status # "PENDING"

(* ========================== specifications ============================= *)

QuietAddresses == InitAddresses

InitAddressesSpec ==
  /\ InitAddresses
  /\ QuietOrders
  /\ InitProducts
  /\ resp = NoResp

SpecAddresses == InitAddressesSpec /\ [][NextAddresses]_vars

InitOrdersSpec ==
  /\ QuietAddresses
  /\ InitOrders
  /\ InitProducts
  /\ resp = NoResp

SpecOrders == InitOrdersSpec /\ [][NextOrders]_vars

SpecSales == InitOrdersSpec /\ [][NextSales]_vars

\* the dashboard beside the handlers that change what its five calls count:
\* an order's status (one update in flight at a time), the number of
\* products, a product's stock
NextStats ==
  \/ StatsReceive
  \/ StatsCountOrders
  \/ StatsCountPending
  \/ StatsAggregate
  \/ StatsCountUsers
  \/ StatsCountLowStock
  \/ StatsRespond
  \/ \E o \in 1..(NumOrders + 1), s \in Statuses :
       OrderStatusReceive(1, o, s)
  \/ OrderStatusWrite(1)
  \/ \E b \in NewProductBodies, valid \in BOOLEAN : AdminCreate(b, valid)
  \/ \E id \in 1..(MaxProducts + 1), st \in StockValues : AdminStock(id, st)

InitStatsSpec ==
  /\ QuietAddresses
  /\ DashboardOrders
  /\ InitProducts
  /\ resp = NoResp

SpecStats == InitStatsSpec /\ [][NextStats]_vars

InitProductsSpec ==
  /\ QuietAddresses
  /\ QuietOrders
  /\ InitProducts
  /\ resp = NoResp

SpecProducts == InitProductsSpec /\ [][NextProducts]_vars

InitListingSpec ==
  /\ QuietAddresses
  /\ ListedOrders
  /\ InitProducts
  /\ resp = NoResp

SpecCatalog == InitListingSpec /\ [][NextCatalog]_vars

SpecListing == InitListingSpec /\ [][NextListing]_vars

====
